---- MODULE Spec2Model ----
(***************************************************************************)
(* Model of the productivity_gui to-do application (src/src/main.rs):      *)
(* the ProductivityApp state, its update handler, the filtered view, and   *)
(* the todos.csv file written by save_todos and read by                    *)
(* ProductivityApp::new through the csv crate.                             *)
(*                                                                         *)
(* A string is a sequence of code points; Rust compares Strings byte-wise, *)
(* which for UTF-8 is the lexicographic order of the code points.          *)
(***************************************************************************)
EXTENDS Integers, Sequences, FiniteSets, TLC

VARIABLES todo_input, category_input, todos, show_completed,
          sort_by_category, filter_category, file, last, io_failures

\* todo_input .. filter_category are the fields of ProductivityApp and file
\* is todos.csv; last and io_failures record the run: the message handled
\* last with the outcome of its save, and the failed saves in a row.
vars == <<todo_input, category_input, todos, show_completed,
          sort_by_category, filter_category, file, last, io_failures>>

(***************************************************************************)
(* Characters                                                              *)
(***************************************************************************)
LF == 10
CR == 13
Space == 32
Quote == 34
Comma == 44
ChA == 97
ChB == 98
BOM == 65279

StrTrue == <<116, 114, 117, 101>>
StrFalse == <<102, 97, 108, 115, 101>>

\* char::is_whitespace restricted to the characters of the model
IsWhitespace(c) == c \in {LF, CR, Space}

RECURSIVE trim_start(_)
trim_start(s) ==
    IF s = <<>> THEN s
    ELSE IF IsWhitespace(Head(s)) THEN trim_start(Tail(s)) ELSE s

RECURSIVE trim_end(_)
trim_end(s) ==
    IF s = <<>> THEN s
    ELSE IF IsWhitespace(s[Len(s)]) THEN trim_end(SubSeq(s, 1, Len(s) - 1))
    ELSE s

\* str::trim
trim(s) == trim_end(trim_start(s))

\* Ord for String: lexicographic on the code points, a proper prefix is less
RECURSIVE StrLess(_, _)
StrLess(a, b) ==
    IF b = <<>> THEN FALSE
    ELSE IF a = <<>> THEN TRUE
    ELSE IF Head(a) < Head(b) THEN TRUE
    ELSE IF Head(a) > Head(b) THEN FALSE
    ELSE StrLess(Tail(a), Tail(b))

StrLeq(a, b) == a = b \/ StrLess(a, b)

\* TodoItem
TodoItem(d, c, cat) == [description |-> d, completed |-> c, category |-> cat]

(***************************************************************************)
(* csv::Writer, as save_todos configures it: no header row, delimiter ','  *)
(* quote '"' doubled inside quoted fields, fields quoted only when needed, *)
(* every record terminated by LF.                                          *)
(***************************************************************************)
NeedsQuotes(s) == \E i \in 1..Len(s) : s[i] \in {Comma, Quote, CR, LF}

RECURSIVE DoubleQuotes(_)
DoubleQuotes(s) ==
    IF s = <<>> THEN <<>>
    ELSE IF Head(s) = Quote THEN <<Quote, Quote>> \o DoubleQuotes(Tail(s))
    ELSE <<Head(s)>> \o DoubleQuotes(Tail(s))

WriteField(s) ==
    IF NeedsQuotes(s) THEN <<Quote>> \o DoubleQuotes(s) \o <<Quote>> ELSE s

\* wtr.serialize(todo): description, completed, category
SerializeTodo(t) ==
    WriteField(t.description) \o <<Comma>>
    \o (IF t.completed THEN StrTrue ELSE StrFalse) \o <<Comma>>
    \o WriteField(t.category) \o <<LF>>

\* the loop of save_todos over the whole vector
RECURSIVE SerializeAll(_)
SerializeAll(ts) ==
    IF ts = <<>> THEN <<>>
    ELSE SerializeTodo(Head(ts)) \o SerializeAll(Tail(ts))

(***************************************************************************)
(* csv::Reader, as ProductivityApp::new configures it: no header row, not  *)
(* flexible, no trimming.  ReadRecords is the record splitter of csv-core: *)
(* a quote opens a quoted field only at the start of a field, an empty     *)
(* line is skipped, CR, LF and CRLF all end a record, and a UTF-8 byte     *)
(* order mark at the very start of the input is dropped.                   *)
(***************************************************************************)
IsTerminator(c) == c \in {CR, LF}

RECURSIVE ReadFrom(_, _, _, _, _)
ReadFrom(s, st, fld, rec, recs) ==
    IF s = <<>> THEN
        IF st = "StartRecord" THEN recs ELSE Append(recs, Append(rec, fld))
    ELSE
        LET c == Head(s)
            r == Tail(s)
        IN CASE st = "StartRecord" ->
                  IF IsTerminator(c) THEN ReadFrom(r, "StartRecord", <<>>, <<>>, recs)
                  ELSE ReadFrom(s, "StartField", <<>>, <<>>, recs)
             [] st = "StartField" ->
                  IF c = Quote THEN ReadFrom(r, "InQuotedField", <<>>, rec, recs)
                  ELSE IF c = Comma THEN ReadFrom(r, "StartField", <<>>, Append(rec, <<>>), recs)
                  ELSE IF IsTerminator(c)
                       THEN ReadFrom(r, "StartRecord", <<>>, <<>>, Append(recs, Append(rec, <<>>)))
                  ELSE ReadFrom(r, "InField", <<c>>, rec, recs)
             [] st = "InField" ->
                  IF c = Comma THEN ReadFrom(r, "StartField", <<>>, Append(rec, fld), recs)
                  ELSE IF IsTerminator(c)
                       THEN ReadFrom(r, "StartRecord", <<>>, <<>>, Append(recs, Append(rec, fld)))
                  ELSE ReadFrom(r, "InField", Append(fld, c), rec, recs)
             [] st = "InQuotedField" ->
                  IF c = Quote THEN ReadFrom(r, "InDoubleEscapedQuote", fld, rec, recs)
                  ELSE ReadFrom(r, "InQuotedField", Append(fld, c), rec, recs)
             [] st = "InDoubleEscapedQuote" ->
                  IF c = Quote THEN ReadFrom(r, "InQuotedField", Append(fld, Quote), rec, recs)
                  ELSE IF c = Comma THEN ReadFrom(r, "StartField", <<>>, Append(rec, fld), recs)
                  ELSE IF IsTerminator(c)
                       THEN ReadFrom(r, "StartRecord", <<>>, <<>>, Append(recs, Append(rec, fld)))
                  ELSE ReadFrom(r, "InField", Append(fld, c), rec, recs)

StripBom(s) == IF s # <<>> /\ Head(s) = BOM THEN Tail(s) ELSE s

ReadRecords(s) == ReadFrom(StripBom(s), "StartRecord", <<>>, <<>>, <<>>)

\* serde: a bool field parses from exactly "true" or "false"
ParsesBool(f) == f \in {StrTrue, StrFalse}

\* Deserialize one record into a TodoItem by position; Ok iff it has the
\* three fields and the second is a bool
DeserializeOk(rec) == Len(rec) >= 3 /\ ParsesBool(rec[2])

DeserializeTodo(rec) == TodoItem(rec[1], rec[2] = StrTrue, rec[3])

\* for result in rdr.deserialize() { if let Ok(todo) = result { push } }
\* The reader is not flexible: the first record read fixes the field count
\* and every later record of another length is an Err.
RECURSIVE DeserializeAll(_, _)
DeserializeAll(recs, first_len) ==
    IF recs = <<>> THEN <<>>
    ELSE LET rec == Head(recs)
             ok == Len(rec) = first_len /\ DeserializeOk(rec)
         IN (IF ok THEN <<DeserializeTodo(rec)>> ELSE <<>>)
            \o DeserializeAll(Tail(recs), first_len)

LoadBytes(s) ==
    LET recs == ReadRecords(s)
    IN IF recs = <<>> THEN <<>> ELSE DeserializeAll(recs, Len(recs[1]))

\* File::open(TODO_CSV_PATH) failing leaves todos empty
load_todos(f) == IF f.exists THEN LoadBytes(f.bytes) ELSE <<>>

(***************************************************************************)
(* The file todos.csv: absent, or present with some content.               *)
(***************************************************************************)
NoFile == [exists |-> FALSE, bytes |-> <<>>]
FileOf(b) == [exists |-> TRUE, bytes |-> b]

\* variant: the file is opened without truncate(true)
save_todos_append(ts, f) ==
    {[io |-> "ok", file |-> FileOf(f.bytes \o SerializeAll(ts))],
     [io |-> "open_failed", file |-> f],
     [io |-> "write_failed", file |-> FileOf(f.bytes)]}

\* save_todos(&self.todos).  Opening with create+truncate may fail, and then
\* nothing is written.  After a successful open the file is empty; the
\* records are buffered (csv::Writer inside BufWriter) and reach the file in
\* the one write of wtr.flush(), whose failure is dropped with `let _ =` and
\* leaves the file truncated.
save_todos(ts, f) ==
    {[io |-> "ok", file |-> FileOf(SerializeAll(ts))],
     [io |-> "open_failed", file |-> f],
     [io |-> "write_failed", file |-> FileOf(<<>>)]}

\* the outcomes the disk allows: no more than MaxIoFailures calls in a row
\* fail; io_failures counts the failed calls since the last successful one
MaxIoFailures == 1
Saves(ts, f, failures) ==
    {o \in save_todos(ts, f) : o.io = "ok" \/ failures < MaxIoFailures}
Failed(o, failures) == IF o.io = "ok" THEN 0 ELSE failures + 1

(***************************************************************************)
(* Bounds and input sets                                                   *)
(***************************************************************************)
MaxTodos == 2

\* texts the user types into the to-do input
DescInputs == {<<>>, <<Space>>, <<Space, ChA, Space>>}
\* texts arriving with CategoryInputChanged
CatInputs == {<<>>, <<ChB, Space>>}

\* Option<String>
None == [some |-> FALSE, val |-> <<>>]
Some(s) == [some |-> TRUE, val |-> s]
FilterInputs == {None, Some(<<ChB>>)}

\* contents of todos.csv found at startup
Line1 == <<ChA, Comma, ChB, Comma, ChA, LF>>
Line2 == <<Comma>> \o StrTrue \o <<Comma, ChA, LF>>
Line3 == <<Quote, Quote, Quote, Comma, Quote, Comma>> \o StrFalse \o <<Comma, LF>>
InitFiles == {NoFile, FileOf(Line1 \o Line2 \o Line3)}

(***************************************************************************)
(* ProductivityApp                                                         *)
(***************************************************************************)
\* the message update handled last, the index it carried (0 when it carries
\* none) and what its save_todos call did ("none" when it made no call)
Msg(k, i, o) == [kind |-> k, idx |-> i, io |-> o]

\* ProductivityApp::new
Init ==
    /\ file \in InitFiles
    /\ todos = load_todos(file)
    /\ todo_input = <<>>
    /\ category_input = <<>>
    /\ show_completed = FALSE
    /\ sort_by_category = FALSE
    /\ filter_category = None
    /\ last = Msg("new", 0, "none")
    /\ io_failures = 0

\* Message::TodoInputChanged(input)
TodoInputChanged(input) ==
    /\ todo_input' = input
    /\ last' = Msg("TodoInputChanged", 0, "none")
    /\ UNCHANGED <<category_input, todos, show_completed, sort_by_category,
                   filter_category, file, io_failures>>

\* Message::CategoryInputChanged(input)
CategoryInputChanged(input) ==
    /\ category_input' = input
    /\ last' = Msg("CategoryInputChanged", 0, "none")
    /\ UNCHANGED <<todo_input, todos, show_completed, sort_by_category,
                   filter_category, file, io_failures>>

\* variant: the test without trim()
Accepted_untrimmed(input) == input # <<>>

\* if !self.todo_input.trim().is_empty()
Accepted(input) == trim(input) # <<>>

\* variant: the description stored as typed
NewTodo_untrimmed(desc_in, cat_in) == TodoItem(desc_in, FALSE, trim(cat_in))

\* the TodoItem pushed by AddTodo
NewTodo(desc_in, cat_in) == TodoItem(trim(desc_in), FALSE, trim(cat_in))

\* variant: the push is undone when the save fails
AddTodo_rollback ==
    IF Accepted(todo_input) THEN
        /\ Len(todos) < MaxTodos
        /\ LET pushed == Append(todos, NewTodo(todo_input, category_input))
           IN \E o \in Saves(pushed, file, io_failures) :
                 /\ todos' = IF o.io = "ok" THEN pushed ELSE todos
                 /\ file' = o.file
                 /\ io_failures' = Failed(o, io_failures)
                 /\ last' = Msg("AddTodo", 0, o.io)
        /\ todo_input' = <<>>
        /\ category_input' = <<>>
        /\ UNCHANGED <<show_completed, sort_by_category, filter_category>>
    ELSE
        /\ last' = Msg("AddTodo", 0, "none")
        /\ UNCHANGED <<todo_input, category_input, todos, show_completed,
                       sort_by_category, filter_category, file, io_failures>>

\* Message::AddTodo
AddTodo ==
    IF Accepted(todo_input) THEN
        /\ Len(todos) < MaxTodos
        /\ LET pushed == Append(todos, NewTodo(todo_input, category_input))
           IN /\ todos' = pushed
              /\ \E o \in Saves(pushed, file, io_failures) :
                    /\ file' = o.file
                    /\ io_failures' = Failed(o, io_failures)
                    /\ last' = Msg("AddTodo", 0, o.io)
        /\ todo_input' = <<>>
        /\ category_input' = <<>>
        /\ UNCHANGED <<show_completed, sort_by_category, filter_category>>
    ELSE
        /\ last' = Msg("AddTodo", 0, "none")
        /\ UNCHANGED <<todo_input, category_input, todos, show_completed,
                       sort_by_category, filter_category, file, io_failures>>

\* variant: the bound off by one
InRange_inclusive(ts, idx) == idx <= Len(ts)

\* self.todos.get_mut(idx) is Some; idx counts from 0
InRange(ts, idx) == idx < Len(ts)

\* variant: todo.completed = true
FlipAt_set(ts, idx) ==
    [j \in 1..Len(ts) |->
        IF j = idx + 1 THEN [ts[j] EXCEPT !.completed = TRUE] ELSE ts[j]]

\* todo.completed = !todo.completed on the element at idx
FlipAt(ts, idx) ==
    [j \in 1..Len(ts) |->
        IF j = idx + 1 THEN [ts[j] EXCEPT !.completed = ~ts[j].completed]
        ELSE ts[j]]

\* Message::ToggleTodoCompleted(idx)
ToggleTodoCompleted(idx) ==
    IF InRange(todos, idx) THEN
        /\ LET flipped == FlipAt(todos, idx)
           IN /\ todos' = flipped
              /\ \E o \in Saves(flipped, file, io_failures) :
                    /\ file' = o.file
                    /\ io_failures' = Failed(o, io_failures)
                    /\ last' = Msg("ToggleTodoCompleted", idx, o.io)
        /\ UNCHANGED <<todo_input, category_input, show_completed,
                       sort_by_category, filter_category>>
    ELSE
        /\ last' = Msg("ToggleTodoCompleted", idx, "none")
        /\ UNCHANGED <<todo_input, category_input, todos, show_completed,
                       sort_by_category, filter_category, file, io_failures>>

\* variant: hiding the completed records drops them from the store
ToggleShowCompleted_hiding ==
    /\ show_completed' = ~show_completed
    /\ todos' = IF show_completed' THEN todos
                ELSE SelectSeq(todos, LAMBDA t : ~t.completed)
    /\ last' = Msg("ToggleShowCompleted", 0, "none")
    /\ UNCHANGED <<todo_input, category_input, sort_by_category,
                   filter_category, file, io_failures>>

\* Message::ToggleShowCompleted
ToggleShowCompleted ==
    /\ show_completed' = ~show_completed
    /\ last' = Msg("ToggleShowCompleted", 0, "none")
    /\ UNCHANGED <<todo_input, category_input, todos, sort_by_category,
                   filter_category, file, io_failures>>

\* Vec::sort_by(|a, b| a.category.cmp(&b.category)): a stable sort; every
\* element is placed behind the elements whose category is not greater
\* variant: an element goes in front of the elements of its own category
RECURSIVE InsertByCategory_unstable(_, _)
InsertByCategory_unstable(t, sorted) ==
    IF sorted = <<>> THEN <<t>>
    ELSE IF StrLeq(t.category, Head(sorted).category) THEN <<t>> \o sorted
    ELSE <<Head(sorted)>> \o InsertByCategory_unstable(t, Tail(sorted))

RECURSIVE InsertByCategory(_, _)
InsertByCategory(t, sorted) ==
    IF sorted = <<>> THEN <<t>>
    ELSE IF StrLess(t.category, Head(sorted).category) THEN <<t>> \o sorted
    ELSE <<Head(sorted)>> \o InsertByCategory(t, Tail(sorted))

RECURSIVE SortFrom(_, _)
SortFrom(ts, sorted) ==
    IF ts = <<>> THEN sorted
    ELSE SortFrom(Tail(ts), InsertByCategory(Head(ts), sorted))

\* variant: sort followed by dedup_by_key on the category
RECURSIVE DedupByCategory(_)
DedupByCategory(ts) ==
    IF Len(ts) <= 1 THEN ts
    ELSE IF ts[1].category = ts[2].category
         THEN DedupByCategory(<<ts[1]>> \o Tail(Tail(ts)))
    ELSE <<Head(ts)>> \o DedupByCategory(Tail(ts))

sort_by_dedup(ts) == DedupByCategory(SortFrom(ts, <<>>))

sort_by(ts) == SortFrom(ts, <<>>)

\* variant: the sorted sequence is saved
SortByCategory_saving ==
    /\ sort_by_category' = ~sort_by_category
    /\ todos' = IF sort_by_category' THEN sort_by(todos) ELSE todos
    /\ \E o \in Saves(todos', file, io_failures) :
          /\ file' = o.file
          /\ io_failures' = Failed(o, io_failures)
          /\ last' = Msg("SortByCategory", 0, o.io)
    /\ UNCHANGED <<todo_input, category_input, show_completed, filter_category>>

\* Message::SortByCategory
SortByCategory ==
    /\ sort_by_category' = ~sort_by_category
    /\ todos' = IF sort_by_category' THEN sort_by(todos) ELSE todos
    /\ last' = Msg("SortByCategory", 0, "none")
    /\ UNCHANGED <<todo_input, category_input, show_completed,
                   filter_category, file, io_failures>>

\* Message::FilterCategoryChanged(cat)
FilterCategoryChanged(cat) ==
    /\ filter_category' = cat
    /\ last' = Msg("FilterCategoryChanged", 0, "none")
    /\ UNCHANGED <<todo_input, category_input, todos, show_completed,
                   sort_by_category, file, io_failures>>

(***************************************************************************)
(* ProductivityApp::categories and the rows built by ProductivityApp::view *)
(***************************************************************************)
\* Vec<String>::sort
RECURSIVE InsertStr(_, _)
InsertStr(x, sorted) ==
    IF sorted = <<>> THEN <<x>>
    ELSE IF StrLess(x, Head(sorted)) THEN <<x>> \o sorted
    ELSE <<Head(sorted)>> \o InsertStr(x, Tail(sorted))

RECURSIVE SortStrs(_)
SortStrs(xs) ==
    IF xs = <<>> THEN <<>> ELSE InsertStr(Head(xs), SortStrs(Tail(xs)))

\* Vec::dedup: drops every element equal to the one before it
RECURSIVE Dedup(_)
Dedup(xs) ==
    IF Len(xs) <= 1 THEN xs
    ELSE IF xs[1] = xs[2] THEN Dedup(Tail(xs))
    ELSE <<Head(xs)>> \o Dedup(Tail(xs))

Contains(xs, x) == \E i \in 1..Len(xs) : xs[i] = x

\* variant: without cats.dedup()
categories_nodedup(ts, cat_in) ==
    LET cats == [i \in 1..Len(ts) |-> ts[i].category]
        with_input == IF trim(cat_in) # <<>> /\ ~Contains(cats, cat_in)
                      THEN Append(cats, cat_in) ELSE cats
    IN SortStrs(with_input)

\* ProductivityApp::categories
categories(ts, cat_in) ==
    LET cats == [i \in 1..Len(ts) |-> ts[i].category]
        with_input == IF trim(cat_in) # <<>> /\ ~Contains(cats, cat_in)
                      THEN Append(cats, cat_in) ELSE cats
    IN Dedup(SortStrs(with_input))

\* self.todos.iter().enumerate(): indices count from 0
Enumerate(ts) == [i \in 1..Len(ts) |-> [idx |-> i - 1, todo |-> ts[i]]]

FilterCompleted(rows, sc) == SelectSeq(rows, LAMBDA r : sc \/ ~r.todo.completed)

FilterCategory(rows, fc) ==
    SelectSeq(rows, LAMBDA r : IF fc.some THEN r.todo.category = fc.val ELSE TRUE)

\* variant: enumerate() applied after the filters
view_rows_renumbered(ts, sc, fc) ==
    LET kept == FilterCategory(FilterCompleted(Enumerate(ts), sc), fc)
    IN [k \in 1..Len(kept) |-> [idx |-> k - 1, todo |-> kept[k].todo]]

\* the (idx, todo) pairs view folds into rows; idx goes into the row's
\* Message::ToggleTodoCompleted(idx)
view_rows(ts, sc, fc) == FilterCategory(FilterCompleted(Enumerate(ts), sc), fc)

\* ProductivityApp::update
Next ==
    \/ \E input \in DescInputs : TodoInputChanged(input)
    \/ \E input \in CatInputs : CategoryInputChanged(input)
    \/ AddTodo
    \/ \E idx \in 0..MaxTodos : ToggleTodoCompleted(idx)
    \/ ToggleShowCompleted
    \/ SortByCategory
    \/ \E cat \in FilterInputs : FilterCategoryChanged(cat)

Spec == Init /\ [][Next]_vars

(***************************************************************************)
(* Save and reload: a sequence of records is written by save_todos and a   *)
(* newly started ProductivityApp::new reads it back.                       *)
(***************************************************************************)
MaxRt == 2

RtDescs == {<<ChA>>, <<ChA, Comma, ChB>>, <<Quote>>, <<ChA, Quote, ChB>>,
            <<ChA, LF, ChB>>, <<Space, ChA>>, <<BOM, ChA>>}
RtCats == {<<>>, <<Comma>>, <<Quote, ChB>>}
RtRecords == {TodoItem(d, c, cat) : d \in RtDescs, c \in BOOLEAN, cat \in RtCats}

RECURSIVE SeqsUpTo(_, _)
SeqsUpTo(S, n) ==
    IF n = 0 THEN {<<>>}
    ELSE LET shorter == SeqsUpTo(S, n - 1)
         IN shorter \cup {Append(q, x) : q \in {r \in shorter : Len(r) = n - 1}, x \in S}

InitRt ==
    /\ todos \in SeqsUpTo(RtRecords, MaxRt)
    /\ file = NoFile
    /\ todo_input = <<>>
    /\ category_input = <<>>
    /\ show_completed = FALSE
    /\ sort_by_category = FALSE
    /\ filter_category = None
    /\ last = Msg("records", 0, "none")
    /\ io_failures = 0

\* save_todos with every write succeeding
RtSave ==
    /\ last.kind = "records"
    /\ \E o \in {x \in save_todos(todos, file) : x.io = "ok"} : file' = o.file
    /\ last' = Msg("saved", 0, "ok")
    /\ UNCHANGED <<todo_input, category_input, todos, show_completed,
                   sort_by_category, filter_category, io_failures>>

\* the next start of the program: ProductivityApp::new
RtNew ==
    /\ last.kind = "saved"
    /\ todos' = load_todos(file)
    /\ todo_input' = <<>>
    /\ category_input' = <<>>
    /\ show_completed' = FALSE
    /\ sort_by_category' = FALSE
    /\ filter_category' = None
    /\ last' = Msg("new", 0, "none")
    /\ UNCHANGED <<file, io_failures>>

NextRt == RtSave \/ RtNew

SpecRt == InitRt /\ [][NextRt]_vars

(***************************************************************************)
(* Startup load: ProductivityApp::new finds a todos.csv made of up to      *)
(* MaxLoadLines lines, or none.                                            *)
(***************************************************************************)
MaxLoadLines == 3

LineShort == <<ChA, LF>>
LineGood == <<ChA, Comma>> \o StrFalse \o <<Comma, ChB, LF>>
LoadLines == {Line1, Line3, LineShort, LineGood}

RECURSIVE Concat(_)
Concat(ls) == IF ls = <<>> THEN <<>> ELSE Head(ls) \o Concat(Tail(ls))

LoadFiles == {NoFile} \cup {FileOf(Concat(ls)) : ls \in SeqsUpTo(LoadLines, MaxLoadLines)}

\* the process has not run ProductivityApp::new yet
InitLoad ==
    /\ file \in LoadFiles
    /\ todos = <<>>
    /\ todo_input = <<>>
    /\ category_input = <<>>
    /\ show_completed = FALSE
    /\ sort_by_category = FALSE
    /\ filter_category = None
    /\ last = Msg("start", 0, "none")
    /\ io_failures = 0

\* ProductivityApp::new
LoadNew ==
    /\ last.kind = "start"
    /\ todos' = load_todos(file)
    /\ last' = Msg("new", 0, "none")
    /\ UNCHANGED <<todo_input, category_input, show_completed,
                   sort_by_category, filter_category, file, io_failures>>

NextLoad == LoadNew

SpecLoad == InitLoad /\ [][NextLoad]_vars

(***************************************************************************)
(* A run in which todos.csv holds only records that parse at startup and   *)
(* every save_todos call succeeds.                                         *)
(***************************************************************************)
DurableFiles == {FileOf(LineGood), FileOf(Line2 \o Line3)}
DurableDescs == {<<Space, ChA, Space>>, <<BOM, ChA>>}

InitDurable ==
    /\ file \in DurableFiles
    /\ todos = load_todos(file)
    /\ todo_input = <<>>
    /\ category_input = <<>>
    /\ show_completed = FALSE
    /\ sort_by_category = FALSE
    /\ filter_category = None
    /\ last = Msg("new", 0, "none")
    /\ io_failures = 0

NextDurable ==
    \/ \E input \in DurableDescs : TodoInputChanged(input)
    \/ \E input \in CatInputs : CategoryInputChanged(input)
    \/ AddTodo /\ last'.io \in {"ok", "none"}
    \/ \E idx \in 0..MaxTodos : ToggleTodoCompleted(idx) /\ last'.io \in {"ok", "none"}
    \/ ToggleShowCompleted
    \/ SortByCategory
    \/ \E cat \in FilterInputs : FilterCategoryChanged(cat)

SpecDurable == InitDurable /\ [][NextDurable]_vars

(***************************************************************************)
(* Properties                                                              *)
(***************************************************************************)
Mutating == last.kind \in {"AddTodo", "ToggleTodoCompleted"}

\* C1: after an accepted AddTodo and after a ToggleTodoCompleted with a valid
\* index, when the write succeeded, todos.csv exists and its content is the
\* serialization of the whole in-memory sequence, record by record in order.
C1_FileHoldsTodos ==
    (Mutating /\ last.io = "ok") =>
        (file.exists /\ file.bytes = SerializeAll(todos))

C1_Witness ==
    /\ Mutating /\ last.io = "ok"
    /\ Len(todos) >= 2
    /\ \E i \in 1..Len(todos) : todos[i].completed

\* C2: AddTodo with an empty or whitespace-only description input leaves the
\* task sequence unchanged and does not call save_todos, whatever the
\* category input is.
C2_BlankAddIsNoOp ==
    [][(last'.kind = "AddTodo" /\ trim(todo_input) = <<>>) =>
          (todos' = todos /\ file' = file /\ last'.io = "none")]_vars

C2_Witness ==
    /\ last.kind = "AddTodo" /\ last.io = "none"
    /\ todo_input = <<Space>>
    /\ category_input # <<>>
    /\ todos # <<>>

\* C3: AddTodo with a description input that is not blank appends exactly one
\* record, whose description is the trimmed input and whose completed flag is
\* false, and keeps every earlier record at its position.
C3_AddAppendsTrimmed ==
    [][(last'.kind = "AddTodo" /\ trim(todo_input) # <<>>) =>
          /\ Len(todos') = Len(todos) + 1
          /\ SubSeq(todos', 1, Len(todos)) = todos
          /\ todos'[Len(todos')].description = trim(todo_input)
          /\ todos'[Len(todos')].completed = FALSE]_vars

C3_Witness ==
    /\ last.kind = "AddTodo" /\ last.io # "none"
    /\ Len(todos) >= 2
    /\ todos[Len(todos)].description = <<ChA>>

\* C4: ToggleTodoCompleted(i) with i below the length negates the completed
\* flag of record i and changes nothing else: not its description or
\* category, no other record, not the order, not the length.
C4_ToggleFlipsOne ==
    [][(last'.kind = "ToggleTodoCompleted" /\ last'.idx < Len(todos)) =>
          /\ Len(todos') = Len(todos)
          /\ \A j \in 1..Len(todos) :
                IF j = last'.idx + 1
                THEN /\ todos'[j].completed = ~todos[j].completed
                     /\ todos'[j].description = todos[j].description
                     /\ todos'[j].category = todos[j].category
                ELSE todos'[j] = todos[j]]_vars

C4_Witness ==
    /\ last.kind = "ToggleTodoCompleted" /\ last.io # "none"
    /\ last.idx = 1
    /\ Len(todos) >= 2
    /\ todos[1].completed /\ ~todos[2].completed

\* C5: ToggleTodoCompleted(i) with i at or beyond the length leaves the task
\* sequence unchanged and does not call save_todos.
C5_ToggleOutOfRangeIsNoOp ==
    [][(last'.kind = "ToggleTodoCompleted" /\ last'.idx >= Len(todos)) =>
          (todos' = todos /\ file' = file /\ last'.io = "none")]_vars

C5_Witness ==
    /\ last.kind = "ToggleTodoCompleted" /\ last.io = "none"
    /\ last.idx >= Len(todos)
    /\ todos # <<>>

Shown(t) ==
    /\ show_completed \/ ~t.completed
    /\ ~filter_category.some \/ filter_category.val = t.category

\* C6: the displayed rows are the pairs (i, record i) in increasing i for
\* which the record passes the show_completed and the category filter, and
\* toggling with a row's index flips that row's record and no other.
C6_ViewRows ==
    LET rows == view_rows(todos, show_completed, filter_category)
    IN /\ {rows[k].idx : k \in 1..Len(rows)}
             = {i \in 0..(Len(todos) - 1) : Shown(todos[i + 1])}
       /\ \A k \in 1..Len(rows) : rows[k].todo = todos[rows[k].idx + 1]
       /\ \A k \in 1..Len(rows), l \in 1..Len(rows) :
             k < l => rows[k].idx < rows[l].idx
       /\ \A k \in 1..Len(rows) :
             LET after == FlipAt(todos, rows[k].idx)
             IN \A j \in 1..Len(todos) :
                   IF j = rows[k].idx + 1
                   THEN after[j] = [rows[k].todo EXCEPT !.completed = ~@]
                   ELSE after[j] = todos[j]

C6_Witness ==
    LET rows == view_rows(todos, show_completed, filter_category)
    IN /\ Len(rows) = 1
       /\ rows[1].idx = 1
       /\ filter_category.some
       /\ Len(todos) >= 2

StoredCategories == {todos[i].category : i \in 1..Len(todos)}

Ascending(xs) == \A i \in 1..(Len(xs) - 1) : StrLess(xs[i], xs[i + 1])

OfCategory(ts, c) == SelectSeq(ts, LAMBDA t : t.category = c)

\* sorted by category, ties in their earlier relative order, nothing lost
SortedFrom(before, after) ==
    /\ Len(after) = Len(before)
    /\ \A i \in 1..Len(after), j \in 1..Len(after) :
          i < j => StrLeq(after[i].category, after[j].category)
    /\ \A i \in 1..Len(before) :
          OfCategory(after, before[i].category) = OfCategory(before, before[i].category)

\* C8 as stated: after every SortByCategory message the sequence is the
\* stable sort by category of the sequence before it.
C8_Original ==
    [][last'.kind = "SortByCategory" => SortedFrom(todos, todos')]_vars

\* C8: a SortByCategory message that turns the sort_by_category flag on
\* leaves the sequence stably sorted by category; one that turns the flag
\* off leaves the sequence as it is.
C8_SortWhenTurnedOn ==
    [][last'.kind = "SortByCategory" =>
          IF ~sort_by_category
          THEN sort_by_category' /\ SortedFrom(todos, todos')
          ELSE ~sort_by_category' /\ todos' = todos]_vars

C8_Witness ==
    /\ last.kind = "SortByCategory"
    /\ sort_by_category
    /\ Len(todos) >= 2
    /\ todos[1].category = todos[2].category
    /\ todos[1] # todos[2]

\* C9: no stored record has an empty description, in any reachable state,
\* the one right after the startup load included.
C9_NoEmptyDescription ==
    \A i \in 1..Len(todos) : todos[i].description # <<>>

\* C10: saving a sequence of records with non-empty descriptions and loading
\* it at the next start yields the saved sequence.
C10_RoundTrip ==
    [][last'.kind = "new" => todos' = todos]_vars

\* the records of a file, each taken on its own: those with the three fields
\* description, completed, category, the second a bool
ParsableRecords(f) ==
    LET recs == IF f.exists THEN ReadRecords(f.bytes) ELSE <<>>
        good == SelectSeq(recs, LAMBDA r : Len(r) = 3 /\ ParsesBool(r[2]))
    IN [i \in 1..Len(good) |-> DeserializeTodo(good[i])]

\* C11: the startup load yields no records when the file does not exist, and
\* otherwise exactly the records of the file that parse as (description,
\* completed, category), in file order, every other record skipped on its
\* own.
C11_LoadSkipsIndividually ==
    [][last'.kind = "new" => todos' = ParsableRecords(file)]_vars

SaveFailed(m) == m.io \in {"open_failed", "write_failed"}

\* what an accepted add or a valid toggle makes of the sequence
Mutated(ts, m) ==
    IF m.kind = "AddTodo" THEN Append(ts, NewTodo(todo_input, category_input))
    ELSE FlipAt(ts, m.idx)

IsProperPrefix(p, s) ==
    IF p = <<>> THEN s # <<>>
    ELSE Len(p) < Len(s) /\ SubSeq(s, 1, Len(p)) = p

\* C12 as stated: when the write of an accepted add or a valid toggle fails,
\* the mutation is applied in memory and the file is merely out of date, that
\* is, still holds what it held before the message.
C12_Original ==
    [][(last'.kind \in {"AddTodo", "ToggleTodoCompleted"} /\ SaveFailed(last')) =>
          (todos' = Mutated(todos, last') /\ file' = file)]_vars

\* C12: when the save of an accepted add or a valid toggle fails, the
\* mutation is applied in memory all the same and the handler ends as after
\* a successful save; the file is unchanged when it could not be opened, and
\* truncated, holding less than the new serialization, when the write failed
\* after the truncating open.  The next add or toggle whose write succeeds
\* makes the file the serialization of the in-memory sequence again.
C12_FailedSaveKeepsMutation ==
    [][/\ (SaveFailed(last') /\ last'.kind \in {"AddTodo", "ToggleTodoCompleted"}) =>
            /\ todos' = Mutated(todos, last')
            /\ last'.kind = "AddTodo" => (todo_input' = <<>> /\ category_input' = <<>>)
            /\ IF last'.io = "open_failed" THEN file' = file
               ELSE /\ file'.exists
                    /\ IsProperPrefix(file'.bytes, SerializeAll(todos'))
       /\ (io_failures > 0 /\ last'.io = "ok"
             /\ last'.kind \in {"AddTodo", "ToggleTodoCompleted"}) =>
            file' = FileOf(SerializeAll(todos'))]_vars

C12_Witness ==
    /\ last.kind = "ToggleTodoCompleted" /\ last.io = "write_failed"
    /\ file = FileOf(<<>>)
    /\ Len(todos) >= 2
    /\ todos[1].completed

\* C13: ToggleShowCompleted and FilterCategoryChanged change their view flag
\* and nothing else: the task sequence (records, order, completed flags),
\* the persisted file, the inputs and the other flags stay as they are.
C13_ViewFlagsOnly ==
    [][/\ last'.kind = "ToggleShowCompleted" =>
            /\ todos' = todos /\ file' = file
            /\ show_completed' = ~show_completed
            /\ UNCHANGED <<todo_input, category_input, sort_by_category,
                           filter_category>>
       /\ last'.kind = "FilterCategoryChanged" =>
            /\ todos' = todos /\ file' = file
            /\ UNCHANGED <<todo_input, category_input, sort_by_category,
                           show_completed>>]_vars

C13_Witness ==
    /\ last.kind = "FilterCategoryChanged"
    /\ filter_category.some
    /\ show_completed
    /\ file.exists /\ file.bytes # <<>>
    /\ Len(todos) >= 2
    /\ \E i \in 1..Len(todos) : todos[i].completed

\* C14: SortByCategory does not call save_todos: the file content is the
\* same before and after the message, so the file can hold the records in
\* another order than memory.
C14_SortDoesNotSave ==
    [][last'.kind = "SortByCategory" => (file' = file /\ last'.io = "none")]_vars

C14_Witness ==
    /\ last.kind = "SortByCategory"
    /\ Len(todos) = 2
    /\ todos[1] # todos[2]
    /\ file = FileOf(SerializeAll(<<todos[2], todos[1]>>))

Count(ts, t) == Cardinality({i \in 1..Len(ts) : ts[i] = t})

\* one sequence is a permutation of the other
SameRecords(xs, ys) ==
    /\ Len(xs) = Len(ys)
    /\ \A i \in 1..Len(xs) : Count(xs, xs[i]) = Count(ys, xs[i])

\* C15: started from a file in which every record parses, and with every
\* write succeeding, in every reachable state the records a restart would
\* load from the file are a permutation of the in-memory records.
C15_FileIsPermutation == SameRecords(load_todos(file), todos)

\* the records of ts with the description and category of t
CountPair(ts, t) ==
    Len(SelectSeq(ts, LAMBDA x : /\ x.description = t.description
                                 /\ x.category = t.category))

\* C16: no message removes a record or changes the description or category
\* of a stored one: the length grows by exactly one on an accepted add and
\* stays the same on every other message, and every (description, category)
\* pair is stored at least as often after the message as before it.
C16_RecordsOnlyAdded ==
    [][/\ Len(todos') = Len(todos)
                          + (IF last'.kind = "AddTodo" /\ trim(todo_input) # <<>>
                             THEN 1 ELSE 0)
       /\ \/ todos' = todos
          \/ \A i \in 1..Len(todos) :
                CountPair(todos', todos[i]) >= CountPair(todos, todos[i])]_vars

C16_Witness ==
    /\ last.kind = "AddTodo" /\ last.io = "open_failed"
    /\ Len(todos) = 2
    /\ todos[1].description = todos[2].description
    /\ todos[1].category = todos[2].category

====
